---- MODULE Spec2Model ----
(***************************************************************************)
(* Critiquely processor: the queue dispatcher (WorkflowQueueConsumer), the  *)
(* review workflow graph (build_review_graph) and its nodes, modelled as a  *)
(* state machine.  One worker consumes one queue of the broker.  Each graph *)
(* node is one step of the worker; an exception raised inside a step        *)
(* unwinds to process_message inside the same step, where the dispatcher    *)
(* issues its broker decision.                                              *)
(***************************************************************************)
EXTENDS Integers, Sequences, FiniteSets, TLC

\* ------------------------------------------------------------------ bounds
MaxQueue == 2
MaxFiles == 2
MaxRecs == 2
NumWorkers == 2
MaxDirs == 3
\* routes one webhook event is published to
MaxRoutes == 2

\* --------------------------------------------------------------- constants
\* channel.basic_qos(prefetch_count=1)
prefetch_count == 1

\* receiver Settings.rabbitmq_retry_attempts
rabbitmq_retry_attempts == 3

None == "None"
END == "__end__"
DefaultCommitMessage == 0

required_message_fields == {"repo_url", "original_pr_url", "branch", "modified_files"}

VARIABLES
    ready,          \* broker: messages waiting in code_review_queue
    unacked,        \* broker: messages delivered to the worker, no decision yet
    pc,             \* worker position: "idle", a node name, "finished" (the graph
                    \* run returned) or "returning" (the decision is issued)
    cur,            \* body of the delivery being processed (kept until the next one)
    decision,       \* broker decision of the current delivery
    ndecisions,     \* number of basic_ack/basic_nack calls for the current delivery
    graph_built,    \* build_graph was called for the current delivery
    raised,         \* exception that escaped to process_message ("" if none)
    state,          \* the ReviewState channels of the running graph
    trace,          \* node executions of the current run, in order
    commits,        \* commits created in the working copy by commit_code
    popped,         \* recommendations popped by apply_recommendations
    llm_calls,      \* model invocations: node and the messages sent
    tool_runs,      \* tool executions performed by tool_call
    recs_at_apply,  \* recommendations pending when apply first ran (-1 before)
    pushed,         \* push_code pushed the branch
    comment,        \* pr_url referenced by the comment posted on the original PR
    branches,       \* core/graph.py: the Send tasks of the fan-out superstep
    remote_url,     \* origin URL in the working copy's config: None (no working
                    \* copy), "repo_url" (plain) or "git_url" (token embedded)
    checkpointed,   \* the delivery the worker takes next was requeued by a run
                    \* whose MemorySaver held the state after a completed step
    workers,        \* several worker processes on one host: position, clone_path
                    \* and the places each one's current run has read or written
    tmp_dirs,       \* directories that exist under the host's temporary directory
    github_token,   \* settings.github_token of the worker process
    worker,         \* the worker process: "consuming" or "exit_1"
    roundtrip,      \* one Task message on its way from a publisher to a state
    cli,            \* one invocation of the command line entry point
    registry,       \* WorkflowRegistry._workflows and the last register call
    publisher,      \* the receiver handling one webhook: its publish_to_queue calls
    cloner          \* one call of a clone_repo node function

vars == <<ready, unacked, pc, cur, decision, ndecisions, graph_built, raised, checkpointed,
          state, trace, commits, popped, llm_calls, tool_runs, recs_at_apply,
          pushed, comment, branches, remote_url, workers, tmp_dirs,
          github_token, worker, roundtrip, cli, registry, publisher, cloner>>

\* the process environment, fixed when the process starts
envvars == <<github_token, worker>>

\* variables that no step of the queue worker of Spec changes
sidevars == <<workers, tmp_dirs, envvars, roundtrip, cli, registry, publisher, cloner>>

runvars == <<state, trace, commits, popped, llm_calls, tool_runs, recs_at_apply,
             pushed, comment, branches, remote_url>>

\* everything the queue worker of Spec owns
queuevars == <<ready, unacked, pc, cur, decision, ndecisions, graph_built, raised,
               checkpointed, runvars, envvars>>

\* ------------------------------------------------------------ message bodies
\* The broker never looks into a body: a message's body is fixed when the
\* worker first reads it, and a requeued message keeps the body it had.
Unread == [kind |-> "unread", fields |-> {}, url |-> "", nfiles |-> 0]

Body(k, f, u, n) == [kind |-> k, fields |-> f, url |-> u, nfiles |-> n]

\* bytes that are not UTF-8, text that is not JSON, JSON scalars, JSON strings
\* and lists (fields: the required names they contain), JSON objects (fields:
\* the required keys they have; url and nfiles matter when all four are there)
Bodies ==
    {Body(k, {}, "", 0) : k \in {"bad_utf8", "bad_json", "number", "null"}}
    \cup {Body(k, f, "", 0) : k \in {"string", "list"}, f \in {{}, required_message_fields}}
    \cup {Body("object", f, "", 0) : f \in (SUBSET required_message_fields) \ {required_message_fields}}
    \cup {Body("object", required_message_fields, u, n) : u \in {"https", "ssh"}, n \in 0..MaxFiles}

\* --------------------------------------------------------------- exceptions
\* JSONDecodeError and UnicodeDecodeError are subclasses of ValueError.
IsValueError(exc) == exc \in {"ValueError", "JSONDecodeError", "UnicodeDecodeError"}

\* variant: the catch-all clause acknowledges instead of rejecting
ClassifyAckOnError(exc) == IF IsValueError(exc) THEN "nack" ELSE "ack"

\* variant: a message that comes back after a requeue is dropped
ClassifyGiveUpOnRedelivery(exc) ==
    IF IsValueError(exc) \/ checkpointed THEN "nack" ELSE "nack_requeue"

\* variant: only an exception whose type is ValueError itself is permanent
Classify_ExactTypeOnly(exc) == IF exc = "ValueError" THEN "nack" ELSE "nack_requeue"

\* process_message's except clauses: ValueError -> requeue=False, else requeue=True
Classify(exc) == IF IsValueError(exc) THEN "nack" ELSE "nack_requeue"

\* json.loads(body.decode("utf-8")): "" when it returns a value
json_loads(body) ==
    CASE body.kind = "bad_utf8" -> "UnicodeDecodeError"
      [] body.kind = "bad_json" -> "JSONDecodeError"
      [] OTHER -> ""

\* variant: "branch" left out of required_message_fields
validate_message_BranchOptional(data) ==
    CASE data.kind \in {"number", "null"} -> "TypeError"
      [] (required_message_fields \ {"branch"}) \ data.fields # {} -> "ValueError"
      [] OTHER -> ""

\* BaseWorkflow.validate_message: `field not in message_data` for each field
validate_message(data) ==
    CASE data.kind \in {"number", "null"} -> "TypeError"
      [] required_message_fields \ data.fields # {} -> "ValueError"
      [] OTHER -> ""

\* ReviewWorkflow.run up to build_graph: validate, then message_data.get(...)
run_prologue(data) ==
    LET v == validate_message(data)
    IN  CASE v # "" -> v
          [] data.kind # "object" -> "AttributeError"
          [] OTHER -> ""

\* ------------------------------------------------------------ workflow state
NoRec == [file |-> 0, summary |-> 0, kind |-> None]

EmptyState ==
    [messages |-> <<>>, repo_url |-> "", base_branch |-> "", original_pr_url |-> "",
     clone_path |-> None, new_branch |-> None,
     modified_files |-> <<>>, recommendations |-> <<>>,
     current_recommendation |-> NoRec, pr_url |-> None, updated_files |-> <<>>]

create_initial_state(data) ==
    [EmptyState EXCEPT !.repo_url = data.url,
                       !.base_branch = "main",
                       !.original_pr_url = "https://host/owner/repo/pull/7",
                       !.modified_files = [i \in 1..data.nfiles |-> i]]

ResetRun ==
    /\ trace' = <<>>
    /\ commits' = <<>>
    /\ popped' = <<>>
    /\ llm_calls' = <<>>
    /\ tool_runs' = 0
    /\ recs_at_apply' = -1
    /\ pushed' = FALSE
    /\ comment' = None
    /\ branches' = <<>>
    /\ remote_url' = None

\* the side specifications' variables while they are not in use
WorkersIdle == workers = <<>> /\ tmp_dirs = {}

RoundTripIdle == roundtrip = <<>>

CliIdle == cli = <<>>

RegistryIdle == registry = <<>>

PublisherIdle == publisher = <<>>

ClonerIdle == cloner = <<>>

SideIdle == WorkersIdle /\ RoundTripIdle /\ CliIdle /\ RegistryIdle /\ PublisherIdle /\ ClonerIdle

\* the queue worker before its first delivery
IdleWorker ==
    /\ ready = <<>>
    /\ unacked = <<>>
    /\ pc = "idle"
    /\ cur = Unread
    /\ decision = "none"
    /\ ndecisions = 0
    /\ graph_built = FALSE
    /\ raised = ""
    /\ state = EmptyState
    /\ trace = <<>>
    /\ commits = <<>>
    /\ popped = <<>>
    /\ llm_calls = <<>>
    /\ tool_runs = 0
    /\ recs_at_apply = -1
    /\ pushed = FALSE
    /\ comment = None
    /\ branches = <<>>
    /\ remote_url = None
    /\ checkpointed = FALSE

\* settings.github_token: empty (the default) or set
Tokens == {"", "tok"}

\* start_queue_worker: sys.exit(1) before the consumer is built when the
\* token is empty
start_queue_worker(token) == IF token = "" THEN "exit_1" ELSE "consuming"

\* a process that runs with a token
TokenSet == github_token = "tok" /\ worker = "consuming"

\* the process starts through start_queue_worker, or builds a
\* WorkflowQueueConsumer itself and calls start_consuming
Startup ==
    /\ github_token \in Tokens
    /\ worker \in {start_queue_worker(github_token), "consuming"}

Init == IdleWorker /\ Startup /\ SideIdle

\* ------------------------------------------------------------------- broker
\* variant: a prefetch limit of two
qos_prefetch_Two == prefetch_count + 1

\* setup_consumer_for_queue: the limit given to basic_qos
qos_prefetch == prefetch_count

\* a producer publishes a message to the durable queue
Publish ==
    /\ Len(ready) + Len(unacked) < MaxQueue
    /\ ready' = Append(ready, Unread)
    /\ UNCHANGED <<unacked, pc, cur, decision, ndecisions, graph_built, raised, runvars,
                   checkpointed, sidevars>>

\* basic_qos(prefetch_count): the broker hands over the head of the queue only
\* while the worker holds fewer than the prefetch limit of unacknowledged messages
Deliver ==
    /\ worker = "consuming"
    /\ ready # <<>>
    /\ Len(unacked) < qos_prefetch
    /\ unacked' = Append(unacked, Head(ready))
    /\ ready' = Tail(ready)
    /\ UNCHANGED <<pc, cur, decision, ndecisions, graph_built, raised, runvars,
                   checkpointed, sidevars>>

\* basic_ack / basic_nack of the delivery being processed
Decide(d, prior) ==
    /\ decision' = d
    /\ ndecisions' = prior + 1
    /\ unacked' = Tail(unacked)
    /\ ready' = IF d = "nack_requeue" THEN <<cur'>> \o ready ELSE ready
    /\ pc' = "returning"

\* an exception escapes to process_message's except clauses
Escape(exc, prior) ==
    /\ raised' = exc
    /\ Decide(Classify(exc), prior)

\* --------------------------------------------------------------- dispatcher
\* process_message up to the first graph node: json.loads, workflow lookup
\* (the worker consumes only queues of registered workflows, so it succeeds),
\* validate_message, build_graph (which opens the MCP client), initial state
ProcessMessage ==
    /\ pc = "idle"
    /\ unacked # <<>>
    /\ UNCHANGED <<trace, commits, popped, llm_calls, tool_runs, recs_at_apply,
                   pushed, comment, branches, remote_url>>
    /\ checkpointed' = FALSE
    /\ UNCHANGED sidevars
    /\ \E body \in Bodies :
        /\ Head(unacked) \in {Unread, body}
        /\ cur' = body
        /\ LET e1 == json_loads(body)
               e2 == run_prologue(body)
           IN  IF e1 # "" THEN
                    /\ Escape(e1, 0) /\ graph_built' = FALSE /\ state' = EmptyState
               ELSE IF e2 # "" THEN
                    /\ Escape(e2, 0) /\ graph_built' = FALSE /\ state' = EmptyState
               ELSE \E mcp_ok \in BOOLEAN :
                    /\ graph_built' = TRUE
                    /\ IF mcp_ok
                       THEN /\ state' = create_initial_state(body)
                            /\ pc' = "clone_repo"
                            /\ decision' = "none"
                            /\ ndecisions' = 0
                            /\ raised' = ""
                            /\ unacked' = [unacked EXCEPT ![1] = body]
                            /\ UNCHANGED ready
                       ELSE /\ state' = EmptyState
                            /\ Escape("ConnectionError", 0)

\* variant: process_message returns after the run without a call to the broker
Ack_Silent ==
    /\ pc = "finished"
    /\ pc' = "returning"
    /\ UNCHANGED <<ready, unacked, cur, decision, ndecisions, graph_built, raised,
                   runvars, checkpointed, sidevars>>

\* asyncio.run(workflow.run(...)) returned: basic_ack
Ack ==
    /\ pc = "finished"
    /\ cur' = cur
    /\ raised' = raised
    /\ Decide("ack", ndecisions)
    /\ UNCHANGED <<graph_built, runvars, checkpointed, sidevars>>

\* ------------------------------------------------------------ graph engine
Last(seq) == seq[Len(seq)]

\* a conversation turn, stamped with the step of the run that produced it
\* A message turn has a role, a content, a tool-call request or none, and the
\* step that created it (which tells two turns of equal content apart).  The
\* conversation holds each turn as one number made of these four.
MsgRoles == <<"human", "ai", "tool">>

MsgTexts ==
    <<"Cloned", "Failed to clone", "New branch created", "Failed to create",
      "Could not read file", "review prompt", "review response",
      "edit prompt", "edit response", "tool result",
      "Committed changes", "Failed to add/commit", "Commit failed",
      "Pushed branch", "Failed to push", "Push failed",
      "Opened PR", "Failed to open PR",
      "Commented on original PR", "Failed to comment">>

IndexOf(seq, x) == CHOOSE i \in 1..Len(seq) : seq[i] = x

MsgAtStep(role, text, tc, at) ==
    ((at * Len(MsgTexts) + IndexOf(MsgTexts, text) - 1) * Len(MsgRoles)
        + IndexOf(MsgRoles, role) - 1) * 2 + (IF tc THEN 1 ELSE 0)

MsgToolCalls(m) == m % 2 = 1
MsgRole(m) == MsgRoles[((m \div 2) % Len(MsgRoles)) + 1]
MsgText(m) == MsgTexts[((m \div (2 * Len(MsgRoles))) % Len(MsgTexts)) + 1]
MsgStep(m) == m \div (2 * Len(MsgRoles) * Len(MsgTexts))

Msg(role, text, tc) == MsgAtStep(role, text, tc, Len(trace) + 1)

\* variant: no channel has a reducer, every update overwrites
Reducer_Overwrite(key, old, new) == new

\* ReviewState: messages is Annotated[list, operator.add]; every other
\* channel keeps the last value written
Reducer(key, old, new) == IF key = "messages" THEN old \o new ELSE new

\* the engine applies a node's returned update to the channels
Merge(st, upd) ==
    [k \in DOMAIN st |-> IF k \in DOMAIN upd THEN Reducer(k, st[k], upd[k]) ELSE st[k]]

\* a node's outcome: the exception it raised ("" if none), the channel values
\* after the node's in-place mutations, and the update it returned
Result(exc, live, upd) == [exc |-> exc, live |-> live, upd |-> upd]

\* variant: a missing value is handed on instead of raising
get_state_value_Lenient(st, key) == ""

\* get_state_value: None or a blank string raises ValueError
get_state_value(st, key) ==
    CASE key = "current_recommendation" ->
            IF st[key].kind = None THEN "ValueError" ELSE ""
      [] st[key] = None \/ st[key] = "" -> "ValueError"
      [] OTHER -> ""

\* first exception among the get_state_value calls of a node, in call order
RECURSIVE first_missing(_, _)
first_missing(st, keys) ==
    IF keys = <<>> THEN ""
    ELSE IF get_state_value(st, Head(keys)) # "" THEN get_state_value(st, Head(keys))
    ELSE first_missing(st, Tail(keys))

\* variant: only the URL scheme is checked
create_github_https_url_NoTokenCheck(url) == IF url # "https" THEN "ValueError" ELSE ""

\* create_github_https_url: an empty token raises ValueError, and so does
\* anything but an https:// URL
create_github_https_url(url) ==
    IF github_token = "" THEN "ValueError"
    ELSE IF url # "https" THEN "ValueError" ELSE ""

\* variant: the router leaves the inspect loop after the first file
has_more_files_to_inspect_Never(st) == END

has_more_files_to_inspect(st) ==
    IF st.modified_files # <<>> THEN "inspect_files" ELSE END

\* variant: the router loops while recommendations are pending, whatever the reply
has_tool_invocation_IgnoreReply(st) ==
    IF st.recommendations # <<>> THEN "tools" ELSE END

\* variant: the router looks for a tool-call request in the whole conversation
has_tool_invocation_AnyMessage(st) ==
    IF st.messages = <<>> THEN "ValueError"
    ELSE IF \E i \in 1..Len(st.messages) : MsgToolCalls(st.messages[i])
         THEN "tools" ELSE END

\* "ValueError" when there is no message to route on
has_tool_invocation(st) ==
    IF st.messages = <<>> THEN "ValueError"
    ELSE IF MsgToolCalls(Last(st.messages)) THEN "tools" ELSE END

\* variant: the pull request is opened before the branch is pushed
next_node_PrBeforePush(node, st) ==
    CASE node = "clone_repo" -> "create_branch"
      [] node = "create_branch" -> "inspect_files"
      [] node = "inspect_files" ->
            IF has_more_files_to_inspect(st) = "inspect_files"
            THEN "inspect_files" ELSE "apply_recommendations"
      [] node = "apply_recommendations" ->
            CASE has_tool_invocation(st) = "tools" -> "tool_call"
              [] has_tool_invocation(st) = END -> "pr_repo"
              [] OTHER -> has_tool_invocation(st)
      [] node = "tool_call" -> "commit_code"
      [] node = "commit_code" -> "apply_recommendations"
      [] node = "pr_repo" -> "push_code"
      [] node = "push_code" -> "comment_on_original_pr"
      [] node = "comment_on_original_pr" -> "finished"

\* build_review_graph: the edges and the two conditional edge maps
next_node(node, st) ==
    CASE node = "clone_repo" -> "create_branch"
      [] node = "create_branch" -> "inspect_files"
      [] node = "inspect_files" ->
            IF has_more_files_to_inspect(st) = "inspect_files"
            THEN "inspect_files" ELSE "apply_recommendations"
      [] node = "apply_recommendations" ->
            CASE has_tool_invocation(st) = "tools" -> "tool_call"
              [] has_tool_invocation(st) = END -> "push_code"
              [] OTHER -> has_tool_invocation(st)
      [] node = "tool_call" -> "commit_code"
      [] node = "commit_code" -> "apply_recommendations"
      [] node = "push_code" -> "pr_repo"
      [] node = "pr_repo" -> "comment_on_original_pr"
      [] node = "comment_on_original_pr" -> "finished"

\* one superstep: run the node, merge its update, follow the outgoing edge;
\* an exception from the node or from the router ends the run
EngineStep(node, res) ==
    /\ trace' = Append(trace, node)
    /\ UNCHANGED <<cur, graph_built, branches, checkpointed, sidevars>>
    /\ LET merged == Merge(res.live, res.upd)
           nxt == next_node(node, merged)
       IN  IF res.exc # "" THEN
                /\ state' = res.live
                /\ Escape(res.exc, ndecisions)
           ELSE IF nxt = "ValueError" THEN
                /\ state' = merged
                /\ Escape("ValueError", ndecisions)
           ELSE /\ state' = merged
                /\ pc' = nxt
                /\ UNCHANGED <<ready, unacked, decision, ndecisions, raised>>

\* ------------------------------------------------------------ git nodes
clone_repo(st, outcome) ==
    LET pre == first_missing(st, <<"repo_url", "base_branch">>)
        url == create_github_https_url(st.repo_url)
    IN  CASE pre # "" -> Result(pre, st, <<>>)
          [] url # "" -> Result(url, st, <<>>)
          [] outcome = "ok" ->
                Result("", st, [clone_path |-> "tmpdir",
                                messages |-> <<Msg("human", "Cloned", FALSE)>>])
          [] outcome = "GitCommandError" ->
                Result("", st, [messages |-> <<Msg("human", "Failed to clone", FALSE)>>])
          [] OTHER -> Result(outcome, st, <<>>)

\* Repo.clone_from(git_url, ...) then repo.remote().set_url(repo_url)
clone_remote_url == "repo_url"

\* origin.set_url(git_url) of commit_code and push_code, reached once the
\* state values are there and Repo(clone_path) opened
inject_token(res, url) == IF res.exc = "" THEN "git_url" ELSE url

CloneRepo ==
    /\ pc = "clone_repo"
    /\ \E outcome \in {"ok", "GitCommandError", "OSError"} :
          LET res == clone_repo(state, outcome)
          IN  /\ EngineStep("clone_repo", res)
              /\ remote_url' = IF res.exc = "" /\ outcome = "ok"
                               THEN clone_remote_url ELSE remote_url
    /\ UNCHANGED <<commits, popped, llm_calls, tool_runs, recs_at_apply, pushed, comment>>

create_branch(st, outcome) ==
    LET pre == first_missing(st, <<"clone_path", "base_branch">>)
    IN  CASE pre # "" -> Result(pre, st, <<>>)
          [] outcome = "ok" ->
                Result("", st, [new_branch |-> "critiquely/improvements",
                                messages |-> <<Msg("human", "New branch created", FALSE)>>])
          [] OTHER ->
                Result("", st, [messages |-> <<Msg("human", "Failed to create", FALSE)>>])

CreateBranch ==
    /\ pc = "create_branch"
    /\ \E outcome \in {"ok", "GitCommandError"} :
          EngineStep("create_branch", create_branch(state, outcome))
    /\ UNCHANGED <<commits, popped, llm_calls, tool_runs, recs_at_apply, pushed, comment, remote_url>>

\* current_recommendation.get("summary", "Apply changes")
recommendation_summary(rec) ==
    IF rec.kind = "no_summary" THEN DefaultCommitMessage ELSE rec.summary

\* variant: the message is taken from the head of the pending list
commit_message_NextPending(st) ==
    IF st.recommendations # <<>>
    THEN recommendation_summary(Head(st.recommendations))
    ELSE recommendation_summary(st.current_recommendation)

\* repo.index.commit(recommendation_summary)
commit_message(st) == recommendation_summary(st.current_recommendation)

\* outcome "set_url": origin.set_url(git_url), which runs git outside both try
\* blocks, fails; "GitCommandError": add or commit fails inside the try
commit_code(st, outcome) ==
    LET pre == first_missing(st, <<"clone_path", "new_branch", "repo_url",
                                   "current_recommendation">>)
        url == create_github_https_url(st.repo_url)
    IN  CASE pre # "" -> Result(pre, st, <<>>)
          [] url # "" -> Result(url, st, <<>>)
          [] outcome = "set_url" -> Result("GitCommandError", st, <<>>)
          [] outcome = "ok" ->
                Result("", st, [messages |-> <<Msg("human", "Committed changes", FALSE)>>])
          [] OTHER ->
                Result("", st, [messages |-> <<Msg("human", "Failed to add/commit", FALSE)>>])

CommitCode ==
    /\ pc = "commit_code"
    /\ \E outcome \in {"ok", "GitCommandError", "set_url"} :
          LET res == commit_code(state, outcome)
          IN  /\ EngineStep("commit_code", res)
              /\ commits' = IF res.exc = "" /\ outcome = "ok"
                            THEN Append(commits,
                                   [message |-> commit_message(state),
                                    after |-> Len(popped)])
                            ELSE commits
              /\ remote_url' = inject_token(res, remote_url)
    /\ UNCHANGED <<popped, llm_calls, tool_runs, recs_at_apply, pushed, comment>>

\* outcome "set_url": origin.set_url(git_url) fails before the try block;
\* "GitCommandError": origin.push fails inside it
push_code(st, outcome) ==
    LET pre == first_missing(st, <<"clone_path", "new_branch", "repo_url">>)
        url == create_github_https_url(st.repo_url)
    IN  CASE pre # "" -> Result(pre, st, <<>>)
          [] url # "" -> Result(url, st, <<>>)
          [] outcome = "set_url" -> Result("GitCommandError", st, <<>>)
          [] outcome = "ok" ->
                Result("", st, [new_branch |-> st.new_branch,
                                messages |-> <<Msg("human", "Pushed branch", FALSE)>>])
          [] OTHER ->
                Result("", st, [messages |-> <<Msg("human", "Failed to push", FALSE)>>])

PushCode ==
    /\ pc = "push_code"
    /\ \E outcome \in {"ok", "GitCommandError", "set_url"} :
          LET res == push_code(state, outcome)
          IN  /\ EngineStep("push_code", res)
              /\ pushed' = (res.exc = "" /\ outcome = "ok")
              /\ remote_url' = inject_token(res, remote_url)
    /\ UNCHANGED <<commits, popped, llm_calls, tool_runs, recs_at_apply, comment>>

\* variant: the pull request is opened without looking at new_branch
pr_repo_UncheckedBranch(st, outcome) ==
    LET pre == first_missing(st, <<"repo_url", "base_branch">>)
    IN  CASE pre # "" -> Result(pre, st, <<>>)
          [] outcome = "ok" ->
                Result("", st, [pr_url |-> "pr_html_url",
                                messages |-> <<Msg("human", "Opened PR", FALSE)>>])
          [] OTHER ->
                Result("", st, [messages |-> <<Msg("human", "Failed to open PR", FALSE)>>])

pr_repo(st, outcome) ==
    LET pre == first_missing(st, <<"repo_url", "base_branch", "new_branch">>)
    IN  CASE pre # "" -> Result(pre, st, <<>>)
          [] outcome = "ok" ->
                Result("", st, [pr_url |-> "pr_html_url",
                                messages |-> <<Msg("human", "Opened PR", FALSE)>>])
          [] OTHER ->
                Result("", st, [messages |-> <<Msg("human", "Failed to open PR", FALSE)>>])

\* GithubException from get_repo or create_pull (e.g. rate limited) is caught
PrRepo ==
    /\ pc = "pr_repo"
    /\ \E outcome \in {"ok", "GithubException"} :
          EngineStep("pr_repo", pr_repo(state, outcome))
    /\ UNCHANGED <<commits, popped, llm_calls, tool_runs, recs_at_apply, pushed, comment, remote_url>>

comment_on_original_pr(st, outcome) ==
    CASE outcome = "ok" ->
            Result("", st, [original_pr_url |-> st.original_pr_url,
                            messages |-> <<Msg("human", "Commented on original PR", FALSE)>>])
      [] OTHER ->
            Result("", st, [messages |-> <<Msg("human", "Failed to comment", FALSE)>>])

\* any Exception from get_repo, get_pull or create_issue_comment is caught
CommentOnOriginalPr ==
    /\ pc = "comment_on_original_pr"
    /\ \E outcome \in {"ok", "Exception"} :
          /\ EngineStep("comment_on_original_pr", comment_on_original_pr(state, outcome))
          /\ comment' = IF outcome = "ok" THEN state.pr_url ELSE comment
    /\ UNCHANGED <<commits, popped, llm_calls, tool_runs, recs_at_apply, pushed, remote_url>>

\* langgraph.prebuilt.ToolNode: run the tool calls of the last AI message and
\* return one ToolMessage per call
tool_node(st) ==
    Result("", st, [messages |-> <<Msg("tool", "tool result", FALSE)>>])

ToolCall ==
    /\ pc = "tool_call"
    /\ EngineStep("tool_call", tool_node(state))
    /\ tool_runs' = tool_runs + 1
    /\ UNCHANGED <<commits, popped, llm_calls, recs_at_apply, pushed, comment, remote_url>>

\* ------------------------------------------------------------ review nodes
\* what a recommendation record holds: all three keys, no "summary" key, or an
\* empty "recommendation"
RecKinds == {"ok", "no_summary", "no_instructions"}

\* the summary the model gives to the i-th recommendation for file f
SummaryId(f, i) == f * 100 + i

\* what json.loads(strip_markdown_json(response.content)) can be: not JSON,
\* a list of records, a number, or an object (whose keys extend() then adds)
Replies(room) ==
    {[kind |-> "garbage", recs |-> <<>>], [kind |-> "number", recs |-> <<>>]}
    \cup {[kind |-> "object", recs |-> <<>>] : x \in {1} \cap (1..room)}
    \cup {[kind |-> "list", recs |-> r] :
            r \in UNION {[1..n -> RecKinds] : n \in 0..room}}

\* the elements extend(parsed) appends for the file entry
\* variant: the parsed list is added last record first
parsed_recs_Reversed(entry, reply) ==
    CASE reply.kind = "list" ->
            [i \in 1..Len(reply.recs) |->
                [file |-> entry,
                 summary |-> SummaryId(entry, Len(reply.recs) + 1 - i),
                 kind |-> reply.recs[Len(reply.recs) + 1 - i]]]
      [] reply.kind = "object" -> <<[file |-> 0, summary |-> 0, kind |-> "not_a_record"]>>
      [] OTHER -> <<>>

parsed_recs(entry, reply) ==
    CASE reply.kind = "list" ->
            [i \in 1..Len(reply.recs) |->
                [file |-> entry, summary |-> SummaryId(entry, i), kind |-> reply.recs[i]]]
      [] reply.kind = "object" -> <<[file |-> 0, summary |-> 0, kind |-> "not_a_record"]>>
      [] OTHER -> <<>>

inspect_files(st, readable, reply) ==
    IF st.modified_files = <<>> THEN Result("", st, st)
    ELSE
      LET entry == Head(st.modified_files)
          s1 == [st EXCEPT !.modified_files = Tail(@)]
          s2 == [s1 EXCEPT !.messages = Append(@, Msg("human", "Could not read file", FALSE))]
          s3 == [s1 EXCEPT !.messages = @ \o <<Msg("human", "review prompt", FALSE),
                                              Msg("ai", "review response", FALSE)>>]
          s4 == [s3 EXCEPT !.recommendations = @ \o parsed_recs(entry, reply)]
      IN  CASE ~readable -> Result("", s2, s2)
            [] reply.kind = "number" -> Result("TypeError", s3, <<>>)
            [] OTHER -> Result("", s4, s4)

InspectFiles ==
    /\ pc = "inspect_files"
    /\ \E readable \in BOOLEAN :
       \E reply \in Replies(MaxRecs - Len(state.recommendations)) :
          /\ readable \/ reply.kind = "garbage"
          /\ state.modified_files = <<>> => reply.kind = "garbage" /\ readable
          /\ EngineStep("inspect_files", inspect_files(state, readable, reply))
          /\ llm_calls' = IF state.modified_files # <<>> /\ readable
                          THEN Append(llm_calls,
                                 [node |-> "inspect_files", at |-> Len(trace) + 1,
                                  input |-> <<Msg("human", "review prompt", FALSE)>>,
                                  tool_requested |-> FALSE])
                          ELSE llm_calls
    /\ UNCHANGED <<commits, popped, tool_runs, recs_at_apply, pushed, comment, remote_url>>

\* variant: the step reads the head of the list and leaves it there
apply_recommendations_with_mcp_KeepHead(st, file_exists, tool_requested) ==
    IF st.recommendations = <<>> THEN Result("", st, st)
    ELSE
      LET current == Head(st.recommendations)
          live1 == st
          ret1 == [live1 EXCEPT !.current_recommendation = current]
          live2 == [live1 EXCEPT
                      !.messages = @ \o <<Msg("human", "edit prompt", FALSE),
                                          Msg("ai", "edit response", tool_requested)>>,
                      !.updated_files = Append(@, current.file)]
          ret2 == [live2 EXCEPT !.current_recommendation = current]
      IN  CASE current.kind = "not_a_record" -> Result("AttributeError", live1, <<>>)
            [] current.kind = "no_instructions" -> Result("", live1, ret1)
            [] ~file_exists -> Result("", live1, ret1)
            [] OTHER -> Result("", live2, ret2)

\* variant: the head is popped without a look at the list: IndexError when empty
apply_recommendations_with_mcp_PopAlways(st, file_exists, tool_requested) ==
    IF st.recommendations = <<>> THEN Result("IndexError", st, <<>>)
    ELSE
      LET current == Head(st.recommendations)
          live1 == [st EXCEPT !.recommendations = Tail(@)]
          ret1 == [live1 EXCEPT !.current_recommendation = current]
          live2 == [live1 EXCEPT
                      !.messages = @ \o <<Msg("human", "edit prompt", FALSE),
                                          Msg("ai", "edit response", tool_requested)>>,
                      !.updated_files = Append(@, current.file)]
          ret2 == [live2 EXCEPT !.current_recommendation = current]
      IN  CASE current.kind = "not_a_record" -> Result("AttributeError", live1, <<>>)
            [] current.kind = "no_instructions" -> Result("", live1, ret1)
            [] ~file_exists -> Result("", live1, ret1)
            [] OTHER -> Result("", live2, ret2)

apply_recommendations_with_mcp(st, file_exists, tool_requested) ==
    IF st.recommendations = <<>> THEN Result("", st, st)
    ELSE
      LET current == Head(st.recommendations)
          live1 == [st EXCEPT !.recommendations = Tail(@)]
          ret1 == [live1 EXCEPT !.current_recommendation = current]
          live2 == [live1 EXCEPT
                      !.messages = @ \o <<Msg("human", "edit prompt", FALSE),
                                          Msg("ai", "edit response", tool_requested)>>,
                      !.updated_files = Append(@, current.file)]
          ret2 == [live2 EXCEPT !.current_recommendation = current]
      IN  CASE current.kind = "not_a_record" -> Result("AttributeError", live1, <<>>)
            [] current.kind = "no_instructions" -> Result("", live1, ret1)
            [] ~file_exists -> Result("", live1, ret1)
            [] OTHER -> Result("", live2, ret2)

\* the model is invoked with the edit prompt alone: llm_with_tools.invoke([prompt])
ApplyRecommendations ==
    /\ pc = "apply_recommendations"
    /\ \E file_exists, tool_requested \in BOOLEAN :
          LET recs == state.recommendations
              looked == recs # <<>> /\ Head(recs).kind \in {"ok", "no_summary"}
              invoked == looked /\ file_exists
          IN  /\ looked \/ file_exists
              /\ invoked \/ ~tool_requested
              /\ EngineStep("apply_recommendations",
                            apply_recommendations_with_mcp(state, file_exists, tool_requested))
              /\ popped' = IF recs # <<>> THEN Append(popped, Head(recs)) ELSE popped
              /\ llm_calls' = IF invoked
                              THEN Append(llm_calls,
                                     [node |-> "apply_recommendations", at |-> Len(trace) + 1,
                                      input |-> <<Msg("human", "edit prompt", FALSE)>>,
                                      tool_requested |-> tool_requested])
                              ELSE llm_calls
              /\ recs_at_apply' = IF recs_at_apply = -1 THEN Len(recs) ELSE recs_at_apply
    /\ UNCHANGED <<commits, tool_runs, pushed, comment, remote_url>>

\* graph.compile(checkpointer=MemorySaver()): a checkpoint is written after
\* every superstep that completed (the node that raised is the last of trace)
checkpoints == IF raised # "" /\ trace # <<>> THEN Len(trace) - 1 ELSE Len(trace)

\* process_message returns to the consuming loop; the run's state, with the
\* graph and its MemorySaver, is dropped
Return ==
    /\ pc = "returning"
    /\ pc' = "idle"
    /\ cur' = Unread
    /\ decision' = "none"
    /\ ndecisions' = 0
    /\ graph_built' = FALSE
    /\ raised' = ""
    /\ state' = EmptyState
    /\ checkpointed' = (decision = "nack_requeue" /\ checkpoints > 0)
    /\ ResetRun
    /\ UNCHANGED <<ready, unacked, sidevars>>

Next ==
    \/ Publish
    \/ Deliver
    \/ ProcessMessage
    \/ CloneRepo
    \/ CreateBranch
    \/ InspectFiles
    \/ ApplyRecommendations
    \/ ToolCall
    \/ CommitCode
    \/ PushCode
    \/ PrRepo
    \/ CommentOnOriginalPr
    \/ Ack
    \/ Return

Spec == Init /\ [][Next]_vars

\* ------------------------------------------- core/graph.py: parallel apply
\* build_graph of src/core/graph.py replaces the sequential apply loop by a
\* fan-out: after the last inspect_files, route_after_inspection sends one
\* apply_recommendation_graph task per target file; the tasks of the superstep
\* run concurrently and their writes are merged into DevAgentState when all
\* of them have completed.

\* variant: updated_files declared without a reducer, as in ReviewState
DevAgentState_Reducer_Plain(key, old, new) == Reducer(key, old, new)

\* DevAgentState: messages and updated_files are Annotated[list, operator.add]
DevAgentState_Reducer(key, old, new) ==
    IF key \in {"messages", "updated_files"} THEN old \o new ELSE new

\* the engine applies one task's writes to the DevAgentState channels
DevAgentState_Merge(st, upd) ==
    [k \in DOMAIN st |->
        IF k \in DOMAIN upd THEN DevAgentState_Reducer(k, st[k], upd[k]) ELSE st[k]]

\* file_groups of continue_to_recommendations: a dict keyed by rec["file"],
\* in order of first occurrence
RECURSIVE file_groups(_)
file_groups(recs) ==
    IF recs = <<>> THEN <<>>
    ELSE LET f == Head(recs).file
         IN  <<[target_file |-> f,
                file_recommendations |-> SelectSeq(recs, LAMBDA r : r.file = f)]>>
             \o file_groups(SelectSeq(recs, LAMBDA r : r.file # f))

\* one Send("apply_recommendation_graph", subgraph_state) per file group
continue_to_recommendations(st) ==
    LET groups == file_groups(st.recommendations)
    IN  [i \in 1..Len(groups) |->
            [messages |-> <<>>,
             clone_path |-> st.clone_path,
             file_recommendations |-> groups[i].file_recommendations,
             target_file |-> groups[i].target_file,
             updated_files |-> <<>>]]

\* the subgraph run of one task (apply_recommendations, then tool_call when
\* the reply requests a tool) and the wrapper's safe_result
apply_recommendation_graph(sub, touched, tool_requested) ==
    LET prompt == <<Msg("human", "edit prompt", FALSE),
                    Msg("ai", "edit response", tool_requested)>>
        tool == IF tool_requested THEN <<Msg("tool", "tool result", FALSE)>> ELSE <<>>
    IN  [messages |-> IF touched THEN sub.messages \o prompt \o tool ELSE sub.messages,
         updated_files |-> IF touched THEN Append(sub.updated_files, sub.target_file)
                           ELSE sub.updated_files]

\* number of tasks of the superstep that have completed
Completed == Cardinality({i \in 1..Len(branches) : branches[i].rank > 0})

\* the writes of tasks 1..n applied in task order
RECURSIVE apply_writes(_, _)
apply_writes(st, n) ==
    IF n = 0 THEN st
    ELSE DevAgentState_Merge(apply_writes(st, n - 1), branches[n].result)

\* the channels when inspect_files has emptied modified_files: a working copy
\* on the new branch and the recommendations the inspections collected
Inspected(recs) ==
    [create_initial_state(Body("object", required_message_fields, "https", 0)) EXCEPT
        !.clone_path = "tmpdir",
        !.new_branch = "critiquely/improvements",
        !.recommendations = recs,
        !.messages = <<MsgAtStep("human", "Cloned", FALSE, 1),
                       MsgAtStep("human", "New branch created", FALSE, 2)>>]

FanOutInit ==
    /\ ready = <<>>
    /\ unacked = <<>>
    /\ cur = Unread
    /\ decision = "none"
    /\ ndecisions = 0
    /\ graph_built = TRUE
    /\ raised = ""
    /\ commits = <<>>
    /\ popped = <<>>
    /\ llm_calls = <<>>
    /\ tool_runs = 0
    /\ recs_at_apply = -1
    /\ pushed = FALSE
    /\ comment = None
    /\ branches = <<>>
    /\ remote_url = clone_remote_url
    /\ checkpointed = FALSE
    /\ TokenSet
    /\ SideIdle
    /\ pc = "route_after_inspection"
    /\ trace = <<"clone_repo", "create_branch", "inspect_files">>
    /\ \E n \in 0..(MaxRecs + 1) :
       \E files \in [1..n -> 1..(MaxFiles + 1)] :
            state = Inspected([i \in 1..n |->
                                [file |-> files[i], summary |-> SummaryId(files[i], i),
                                 kind |-> "ok"]])

FanOutUnchanged ==
    UNCHANGED <<ready, unacked, cur, decision, ndecisions, graph_built, raised,
                commits, popped, llm_calls, tool_runs, recs_at_apply, pushed, comment,
                remote_url, checkpointed, sidevars>>

\* the conditional edge after inspect_files: no Send at all ends the run
RouteAfterInspection ==
    /\ pc = "route_after_inspection"
    /\ LET sends == continue_to_recommendations(state)
       IN  /\ branches' = [i \in 1..Len(sends) |->
                              [input |-> sends[i], rank |-> 0,
                               result |-> [messages |-> <<>>, updated_files |-> <<>>]]]
           /\ pc' = IF sends = <<>> THEN "finished" ELSE "apply_recommendation_graph"
    /\ UNCHANGED <<state, trace>>
    /\ FanOutUnchanged

\* one of the concurrent tasks completes; rank is its place in completion order
ApplyRecommendationGraph ==
    /\ pc = "apply_recommendation_graph"
    /\ \E i \in 1..Len(branches) :
       \E touched, tool_requested \in BOOLEAN :
          /\ branches[i].rank = 0
          /\ touched \/ ~tool_requested
          /\ branches' = [branches EXCEPT
                            ![i].rank = Completed + 1,
                            ![i].result = apply_recommendation_graph(
                                             branches[i].input, touched, tool_requested)]
    /\ UNCHANGED <<state, trace, pc>>
    /\ FanOutUnchanged

\* end of the superstep: every task's writes are applied to the channels and
\* the edge apply_recommendation_graph -> commit_all_changes is followed
\* variant: the commit step is scheduled as soon as one branch has returned
JoinBranches_AfterFirstBranch ==
    /\ pc = "apply_recommendation_graph"
    /\ Completed >= 1
    /\ state' = apply_writes(state, Len(branches))
    /\ trace' = Append(trace, "apply_recommendation_graph")
    /\ pc' = "commit_all_changes"
    /\ UNCHANGED branches
    /\ FanOutUnchanged

\* the superstep of the Send tasks ends when every task has returned; the
\* edge apply_recommendation_graph -> commit_all_changes then schedules the
\* commit node once, however many tasks wrote to it
JoinBranches ==
    /\ pc = "apply_recommendation_graph"
    /\ Completed = Len(branches)
    /\ state' = apply_writes(state, Len(branches))
    /\ trace' = Append(trace, "apply_recommendation_graph")
    /\ pc' = "commit_all_changes"
    /\ UNCHANGED branches
    /\ FanOutUnchanged

\* commit_code of core/new_nodes.py: one commit named after updated_files
files_summary(st) == IF st.updated_files # <<>> THEN Len(st.updated_files) ELSE 0

\* node commit_all_changes (commit_code); edge to push_code
CommitAllChanges ==
    /\ pc = "commit_all_changes"
    /\ \E outcome \in {"ok", "GitCommandError"} :
          /\ state' = DevAgentState_Merge(state,
                          [messages |-> <<Msg("human",
                                IF outcome = "ok" THEN "Committed changes"
                                ELSE "Commit failed", FALSE)>>])
          /\ commits' = IF outcome = "ok"
                        THEN Append(commits, [message |-> files_summary(state), after |-> 0])
                        ELSE commits
    /\ remote_url' = "git_url"
    /\ trace' = Append(trace, "commit_all_changes")
    /\ pc' = "push_code"
    /\ UNCHANGED <<ready, unacked, cur, decision, ndecisions, graph_built, raised,
                   popped, llm_calls, tool_runs, recs_at_apply, pushed, comment,
                   branches, checkpointed, sidevars>>

\* node push_code of the fan-out graph; edge to pr_repo
FanOutPushCode ==
    /\ pc = "push_code"
    /\ \E outcome \in {"ok", "GitCommandError"} :
          /\ state' = DevAgentState_Merge(state,
                          [messages |-> <<Msg("human",
                                IF outcome = "ok" THEN "Pushed branch"
                                ELSE "Push failed", FALSE)>>])
          /\ pushed' = (outcome = "ok")
    /\ remote_url' = "git_url"
    /\ trace' = Append(trace, "push_code")
    /\ pc' = "pr_repo"
    /\ UNCHANGED <<ready, unacked, cur, decision, ndecisions, graph_built, raised,
                   commits, popped, llm_calls, tool_runs, recs_at_apply, comment,
                   branches, checkpointed, sidevars>>

FanOutNext ==
    \/ RouteAfterInspection
    \/ ApplyRecommendationGraph
    \/ JoinBranches
    \/ CommitAllChanges
    \/ FanOutPushCode

FanOutSpec == FanOutInit /\ [][FanOutNext]_vars

\* ------------------------------------------- several workers on one host
\* Each worker process runs one task at a time through the same nodes.  What
\* matters here is where on the host's file system each step reads or writes:
\* clone_repo creates its directory with tempfile.mkdtemp under the temporary
\* directory; create_branch, inspect_files, commit_code and push_code go
\* through state["clone_path"]; apply_recommendations_with_mcp opens
\* Path(current["file"]), the path the model wrote into the recommendation.

\* tempfile.mkdtemp: a directory that did not exist before the call
mkdtemp(dirs) == (1..MaxDirs) \ dirs

\* a relative path is resolved against the working directory of the process,
\* which is none of the directories under the temporary directory
process_cwd == 0

\* where Path(current.get("file", "")) can point: into the run's own clone
\* (the model repeated the path it was shown) or, for a bare file name, into
\* the working directory of the process
recommendation_file_roots(w) == workers[w].clone_path \cup {process_cwd}

WorkerStep(w, from, to, touched) ==
    /\ workers[w].pc = from
    /\ workers' = [workers EXCEPT ![w].pc = to,
                                  ![w].accessed = @ \cup touched]
    /\ UNCHANGED tmp_dirs

WorkersInit ==
    /\ IdleWorker
    /\ TokenSet
    /\ RoundTripIdle /\ CliIdle /\ RegistryIdle /\ PublisherIdle /\ ClonerIdle
    /\ workers = [w \in 1..NumWorkers |->
                    [pc |-> "idle", created |-> {}, clone_path |-> {}, accessed |-> {}]]
    /\ tmp_dirs = {}

\* clone_repo: mkdtemp, then Repo.clone_from into it (clone_path stays unset
\* when the clone fails)
WorkerCloneRepo ==
    \E w \in 1..NumWorkers : \E d \in mkdtemp(tmp_dirs) : \E ok \in BOOLEAN :
        /\ workers[w].pc = "idle"
        /\ tmp_dirs' = tmp_dirs \cup {d}
        /\ workers' = [workers EXCEPT ![w] =
                          [pc |-> "create_branch", created |-> {d},
                           clone_path |-> IF ok THEN {d} ELSE {}, accessed |-> {d}]]

\* create_branch: get_state_value("clone_path") raises when it is unset
WorkerCreateBranch ==
    \E w \in 1..NumWorkers :
        IF workers[w].clone_path = {}
        THEN WorkerStep(w, "create_branch", "idle", {})
        ELSE WorkerStep(w, "create_branch", "inspect_files", workers[w].clone_path)

\* inspect_files: (Path(clone_path) / fname).read_text()
WorkerInspectFiles ==
    \E w \in 1..NumWorkers :
        WorkerStep(w, "inspect_files", "apply_recommendations", workers[w].clone_path)

\* apply_recommendations_with_mcp: file_path.exists(), file_path.read_text()
WorkerApplyRecommendations ==
    \E w \in 1..NumWorkers : \E root \in recommendation_file_roots(w) :
        WorkerStep(w, "apply_recommendations", "commit_code", {root})

\* commit_code: Repo(clone_path), add, commit
WorkerCommitCode ==
    \E w \in 1..NumWorkers :
        WorkerStep(w, "commit_code", "push_code", workers[w].clone_path)

\* push_code: Repo(clone_path), push; the run ends and the worker takes the
\* next task (the directory stays on disk)
WorkerPushCode ==
    \E w \in 1..NumWorkers :
        WorkerStep(w, "push_code", "idle", workers[w].clone_path)

WorkersNext ==
    /\ \/ WorkerCloneRepo
       \/ WorkerCreateBranch
       \/ WorkerInspectFiles
       \/ WorkerApplyRecommendations
       \/ WorkerCommitCode
       \/ WorkerPushCode
    /\ UNCHANGED <<queuevars, roundtrip, cli, registry, publisher, cloner>>

WorkersSpec == WorkersInit /\ [][WorkersNext]_vars

\* ------------------------------------------- the Task message on the wire
\* publish_review_request sends json.dumps(message_data); the consumer parses
\* the body with json.loads.  JSON text is modelled as its sequence of tokens
\* and a Python value by its type: a list of {filename, lines_changed}
\* records, or a str (whose text may itself be JSON).

FileNames == {"a.py", "b.py"}
LineLists == {<<>>, <<10>>, <<11>>, <<10, 11>>, <<11, 10>>}
FileRecords == [filename : FileNames, lines_changed : LineLists]
FileLists == UNION {[1..n -> FileRecords] : n \in 0..MaxFiles}

Tok(t, s, n) == [t |-> t, s |-> s, n |-> n, text |-> <<>>]
StrTok(text) == [t |-> "string", s |-> "", n |-> 0, text |-> text]

RECURSIVE dumps_numbers(_)
dumps_numbers(ns) ==
    IF ns = <<>> THEN <<>> ELSE <<Tok("num", "", Head(ns))>> \o dumps_numbers(Tail(ns))

dumps_record(r) ==
    <<Tok("{", "", 0), Tok("key", "filename", 0), Tok("str", r.filename, 0),
      Tok("key", "lines_changed", 0), Tok("[", "", 0)>>
    \o dumps_numbers(r.lines_changed) \o <<Tok("]", "", 0), Tok("}", "", 0)>>

RECURSIVE dumps_records(_)
dumps_records(rs) ==
    IF rs = <<>> THEN <<>> ELSE dumps_record(Head(rs)) \o dumps_records(Tail(rs))

\* json.dumps: a str becomes one JSON string, a list its elements in order
dumps(v) ==
    IF v.ty = "str" THEN <<StrTok(v.text)>>
    ELSE <<Tok("[", "", 0)>> \o dumps_records(v.items) \o <<Tok("]", "", 0)>>

RECURSIVE loads_numbers(_, _)
loads_numbers(toks, i) ==
    IF toks[i].t = "num" THEN <<toks[i].n>> \o loads_numbers(toks, i + 1) ELSE <<>>

RECURSIVE loads_records(_, _)
loads_records(toks, i) ==
    IF toks[i].t = "{"
    THEN LET lines == loads_numbers(toks, i + 5)
         IN  <<[filename |-> toks[i + 2].s, lines_changed |-> lines]>>
             \o loads_records(toks, i + Len(lines) + 7)
    ELSE <<>>

\* json.loads: a JSON string gives a str, a JSON array a list
loads(toks) ==
    IF toks[1].t = "string" THEN [ty |-> "str", text |-> toks[1].text]
    ELSE [ty |-> "list", items |-> loads_records(toks, 2)]

\* create_initial_state: a str is parsed once, anything else is taken as it is
initial_modified_files(v) == IF v.ty = "str" THEN loads(v.text) ELSE v

\* _run_review_async of the app consumer: json.dumps of whatever the message
\* carries, handed to run_review_graph(modified_files: str)
run_review_async(v) == [ty |-> "str", text |-> dumps(v)]

\* the publisher's message_data["modified_files"]: the list itself, or the
\* list as a JSON string
RoundTripInit ==
    /\ IdleWorker /\ TokenSet /\ WorkersIdle /\ CliIdle /\ RegistryIdle /\ PublisherIdle /\ ClonerIdle
    /\ \E files \in FileLists : \E as_string \in BOOLEAN :
            roundtrip = [stage |-> "message_data",
                         files |-> files,
                         modified_files |->
                            IF as_string
                            THEN [ty |-> "str", text |-> dumps([ty |-> "list", items |-> files])]
                            ELSE [ty |-> "list", items |-> files],
                         body |-> <<>>, consumer |-> None, parsed |-> <<>>]

\* publish_review_request: body = json.dumps(message_data)
PublishReviewRequest ==
    /\ roundtrip.stage = "message_data"
    /\ roundtrip' = [roundtrip EXCEPT !.stage = "published",
                                      !.body = dumps(roundtrip.modified_files)]

\* processor consumer: json.loads(body), then ReviewWorkflow.run
ConsumeProcessor ==
    /\ roundtrip.stage = "published"
    /\ roundtrip' = [roundtrip EXCEPT
                        !.stage = "state", !.consumer = "processor",
                        !.parsed = initial_modified_files(loads(roundtrip.body))]

\* app consumer: json.loads(body), then _run_review_async
ConsumeApp ==
    /\ roundtrip.stage = "published"
    /\ roundtrip' = [roundtrip EXCEPT
                        !.stage = "state", !.consumer = "app",
                        !.parsed = initial_modified_files(
                                        run_review_async(loads(roundtrip.body)))]

RoundTripNext ==
    /\ \/ PublishReviewRequest
       \/ ConsumeProcessor
       \/ ConsumeApp
    /\ UNCHANGED <<queuevars, workers, tmp_dirs, cli, registry, publisher, cloner>>

RoundTripSpec == RoundTripInit /\ [][RoundTripNext]_vars

\* ------------------------------------------------- the command line entry
\* src/app/src/main.py: main(queue_mode, repo_url, original_pr_url, branch,
\* modified_files), invoked by click.  sys.exit(1) ends the process with
\* code 1; returning from main ends it with code 0.

CliArgs == {"repo_url", "original_pr_url", "branch", "modified_files"}

\* an option that was not given is None; a given one is "" or a value (named
\* after its option in CliInit)
Given(v) == v # None /\ v # ""

\* validate_cli_arguments: [arg for arg, value in required_args.items() if not value]
missing_args(args) == {a \in CliArgs : ~Given(args[a])}

\* validate_cli_arguments: with a missing argument it logs and calls
\* sys.exit(1).  The definition of run() and asyncio.run(run()) stand in the
\* same `if missing_args:` block, below sys.exit(1), so they are never
\* reached; with no argument missing the function returns at once.
validate_cli_arguments(args) ==
    IF missing_args(args) # {}
    THEN [exit_code |-> 1, calls |-> <<>>, printed |-> <<>>]
    ELSE [exit_code |-> 0, calls |-> <<>>, printed |-> <<>>]

CliInit ==
    /\ IdleWorker /\ WorkersIdle /\ RoundTripIdle /\ RegistryIdle /\ PublisherIdle /\ ClonerIdle
    /\ github_token \in Tokens
    /\ worker = "cli"
    /\ \E queue_mode \in BOOLEAN : \E args \in [CliArgs -> {None, "", "given"}] :
            cli = [stage |-> "invoked", queue_mode |-> queue_mode,
                   args |-> [a \in CliArgs |->
                                IF args[a] = "given" THEN "<" \o a \o ">" ELSE args[a]],
                   exit_code |-> -1, calls |-> <<>>, printed |-> <<>>]

\* main with --queue-mode: start_queue_worker()
MainQueueMode ==
    /\ cli.stage = "invoked"
    /\ cli.queue_mode
    /\ worker' = start_queue_worker(github_token)
    /\ cli' = [cli EXCEPT !.stage = IF worker' = "exit_1" THEN "exited" ELSE "worker",
                          !.exit_code = IF worker' = "exit_1" THEN 1 ELSE @]

\* main without --queue-mode: validate_cli_arguments(...), then return
MainCliMode ==
    /\ cli.stage = "invoked"
    /\ ~cli.queue_mode
    /\ LET res == validate_cli_arguments(cli.args)
       IN  cli' = [cli EXCEPT !.stage = "exited", !.exit_code = res.exit_code,
                              !.calls = res.calls, !.printed = res.printed]
    /\ UNCHANGED worker

CliNext ==
    /\ \/ MainQueueMode
       \/ MainCliMode
    /\ UNCHANGED <<ready, unacked, pc, cur, decision, ndecisions, graph_built, raised,
                   checkpointed, runvars, github_token, workers, tmp_dirs, roundtrip,
                   registry, publisher, cloner>>

CliSpec == CliInit /\ [][CliNext]_vars

\* ------------------------------------------------------ workflow registry
\* WorkflowRegistry._workflows maps a metadata name to the class registered
\* under it.  A class is modelled by its metadata name and an identity.

WorkflowNames == {"review", "docs", "security"}
WorkflowClasses == [name : WorkflowNames, id : {"first_module", "second_module"}]

\* no class: the name is not a key of _workflows
NoClass == [name |-> None, id |-> None]

NoWorkflows == [n \in WorkflowNames |-> NoClass]

\* variant: a later registration replaces the earlier class
register_Replace(workflows, workflow_class) ==
    [exc |-> "", workflows |-> [workflows EXCEPT ![workflow_class.name] = workflow_class]]

\* WorkflowRegistry.register: ValueError when meta.name is a key of
\* _workflows, else _workflows[meta.name] = workflow_class
register(workflows, workflow_class) ==
    IF workflows[workflow_class.name] # NoClass
    THEN [exc |-> "ValueError", workflows |-> workflows]
    ELSE [exc |-> "",
          workflows |-> [workflows EXCEPT ![workflow_class.name] = workflow_class]]

\* registry.first and registry.before are history: the first class each name
\* was registered with since the registry was last empty, and _workflows
\* before the last call
RegistryInit ==
    /\ IdleWorker /\ TokenSet /\ WorkersIdle /\ RoundTripIdle /\ CliIdle /\ PublisherIdle /\ ClonerIdle
    /\ registry = [workflows |-> NoWorkflows, before |-> NoWorkflows,
                   first |-> NoWorkflows, call |-> None, arg |-> None, raised |-> ""]

Register ==
    \E c \in WorkflowClasses :
        LET res == register(registry.workflows, c)
        IN  registry' = [workflows |-> res.workflows,
                         before |-> registry.workflows,
                         first |-> IF registry.first[c.name] = NoClass
                                   THEN [registry.first EXCEPT ![c.name] = c]
                                   ELSE registry.first,
                         call |-> "register", arg |-> c.name, raised |-> res.exc]

\* WorkflowRegistry.clear
Clear ==
    registry' = [workflows |-> NoWorkflows, before |-> registry.workflows,
                 first |-> NoWorkflows, call |-> "clear", arg |-> None, raised |-> ""]

RegistryNext ==
    /\ \/ Register
       \/ Clear
    /\ UNCHANGED <<queuevars, workers, tmp_dirs, roundtrip, cli, publisher, cloner>>

RegistrySpec == RegistryInit /\ [][RegistryNext]_vars

\* ------------------------------------------------------ receiver: publishing
\* handle_webhook publishes the message to the queue of every applicable
\* route; the calls share the channel that FastAPI injected.  publisher holds
\* the position inside the current publish_to_queue call, the channel
\* ("none": None, "open", "closed": an object whose channel was closed), and
\* for the current call: the iteration of the retry loop, the iterations
\* begun, the basic_publish calls that succeeded and the iterations that ended
\* in the except clause.  publisher.calls keeps the finished calls.

\* get_rabbitmq_channel: None in dev mode or when the connection fails
get_rabbitmq_channel(dev_mode) == IF dev_mode THEN {"none"} ELSE {"none", "open"}

NewCall(p) ==
    [p EXCEPT !.pc = "call", !.attempt = 0, !.attempts = 0, !.published = 0, !.failed = 0]

\* the call ends with outcome ("returned" or "http_500"); handle_webhook
\* records the route's result and goes on with the next route
EndCall(p, outcome) ==
    LET done == [outcome |-> outcome, attempts |-> p.attempts,
                 published |-> p.published, failed |-> p.failed]
        q == [p EXCEPT !.calls = Append(@, done), !.routes = @ - 1]
    IN  IF q.routes = 0 THEN [q EXCEPT !.pc = "processed"] ELSE NewCall(q)

\* for attempt in range(settings.rabbitmq_retry_attempts)
LoopEntry(p) ==
    IF p.attempt < rabbitmq_retry_attempts
    THEN [p EXCEPT !.pc = "get_channel", !.attempts = @ + 1]
    ELSE EndCall(p, "returned")

PublisherInit ==
    /\ IdleWorker /\ TokenSet /\ WorkersIdle /\ RoundTripIdle /\ CliIdle /\ RegistryIdle /\ ClonerIdle
    /\ \E dev_mode \in BOOLEAN, routes \in 1..MaxRoutes :
       \E channel \in get_rabbitmq_channel(dev_mode) :
          publisher = [dev_mode |-> dev_mode, routes |-> routes, channel |-> channel,
                       pc |-> "call", attempt |-> 0, attempts |-> 0, published |-> 0,
                       failed |-> 0, calls |-> <<>>]

\* publish_to_queue is entered: in dev mode it logs and returns
PublishToQueue ==
    /\ publisher.pc = "call"
    /\ publisher' = IF publisher.dev_mode THEN EndCall(publisher, "returned")
                    ELSE LoopEntry(publisher)

\* if not channel: channel = get_rabbitmq_channel(); a missing channel raises
GetChannel ==
    /\ publisher.pc = "get_channel"
    /\ \E fresh \in get_rabbitmq_channel(publisher.dev_mode) :
          LET channel == IF publisher.channel = "none" THEN fresh ELSE publisher.channel
          IN  publisher' = [publisher EXCEPT
                              !.channel = channel,
                              !.pc = IF channel = "none" THEN "except" ELSE "queue_declare"]

\* channel.queue_declare: raises on a closed channel, may raise on an open one
QueueDeclare ==
    /\ publisher.pc = "queue_declare"
    /\ \E ok \in BOOLEAN :
          /\ publisher.channel = "closed" => ~ok
          /\ publisher' = [publisher EXCEPT !.pc = IF ok THEN "basic_publish" ELSE "except"]

\* channel.basic_publish: the broker takes the message, or the call raises
BasicPublish ==
    /\ publisher.pc = "basic_publish"
    /\ \E ok \in BOOLEAN :
          publisher' = IF ok
                       THEN [publisher EXCEPT !.published = @ + 1, !.pc = "close"]
                       ELSE [publisher EXCEPT !.pc = "except"]

\* channel.close() inside the same try block, then return
ChannelClose ==
    /\ publisher.pc = "close"
    /\ \E ok \in BOOLEAN :
          publisher' = IF ok
                       THEN EndCall([publisher EXCEPT !.channel = "closed"], "returned")
                       ELSE [publisher EXCEPT !.pc = "except"]

\* except Exception: sleep, drop the channel and go round again, or raise
\* HTTPException(500) in the last iteration
Except ==
    /\ publisher.pc = "except"
    /\ LET p == [publisher EXCEPT !.failed = @ + 1]
       IN  publisher' =
             IF p.attempt < rabbitmq_retry_attempts - 1
             THEN LoopEntry([p EXCEPT !.attempt = @ + 1, !.channel = "none"])
             ELSE EndCall(p, "http_500")

PublisherNext ==
    /\ \/ PublishToQueue
       \/ GetChannel
       \/ QueueDeclare
       \/ BasicPublish
       \/ ChannelClose
       \/ Except
    /\ UNCHANGED <<queuevars, workers, tmp_dirs, roundtrip, cli, registry, cloner>>

PublisherSpec == PublisherInit /\ [][PublisherNext]_vars

\* ------------------------------------------------------- the run, scheduled
\* asyncio.run(workflow.run(message_data)) blocks until graph.astream is
\* exhausted: while a run is under way the engine keeps executing the node the
\* run stands at.
RunStep ==
    \/ CloneRepo
    \/ CreateBranch
    \/ InspectFiles
    \/ ApplyRecommendations
    \/ ToolCall
    \/ CommitCode
    \/ PushCode
    \/ PrRepo
    \/ CommentOnOriginalPr

\* one message at a time: the producer publishes the next one only when the
\* queue is empty and the worker idle; the worker takes the message, runs it,
\* decides, and takes it again whenever it was requeued
RunInit ==
    /\ Init
    /\ TokenSet

RunNext ==
    /\ \/ Publish /\ pc = "idle"
       \/ Deliver
       \/ ProcessMessage
       \/ RunStep
       \/ Ack
       \/ Return
    /\ Len(ready') + Len(unacked') <= 1

RunSpec == RunInit /\ [][RunNext]_vars /\ WF_vars(RunStep)

\* ------------------------------------------------- node functions on their own
\* commit_code, push_code and pr_repo are module-level functions of one state
\* argument, exported by nodes/__init__.py; the review graph is one caller.
\* Here a caller of its own hands them a state whose clone_path, new_branch and
\* current_recommendation are set or not in any combination, next to the runs
\* of the worker.
NodeCallStates ==
    {[create_initial_state(Body("object", required_message_fields, "https", 0))
        EXCEPT !.clone_path = c, !.new_branch = b, !.current_recommendation = r] :
            c \in {None, "tmpdir"},
            b \in {None, "", "critiquely/improvements"},
            r \in {NoRec, [file |-> 1, summary |-> SummaryId(1, 1), kind |-> "ok"]}}

NodeCallInit ==
    \/ RunInit
    \/ /\ SideIdle /\ TokenSet
       /\ ready = <<>>
       /\ unacked = <<Body("object", required_message_fields, "https", 0)>>
       /\ cur = Body("object", required_message_fields, "https", 0)
       /\ decision = "none" /\ ndecisions = 0
       /\ graph_built = TRUE /\ raised = "" /\ checkpointed = FALSE
       /\ trace = <<>> /\ commits = <<>> /\ popped = <<>> /\ llm_calls = <<>>
       /\ tool_runs = 0 /\ recs_at_apply = -1 /\ pushed = FALSE
       /\ comment = None /\ branches = <<>>
       /\ remote_url = clone_remote_url
       /\ pc \in {"commit_code", "push_code", "pr_repo"}
       /\ state \in NodeCallStates

NodeCallNext == RunNext

NodeCallSpec == NodeCallInit /\ [][NodeCallNext]_vars

\* ------------------------------------------------------------- the clone step
\* Two clone_repo node functions exist: nodes/git.py, the entry node of the
\* graph that entrypoints/cli.py runs, and nodes/git_nodes.py, the entry node of
\* the review workflow.  Both take repo_url and base_branch from the state,
\* build the authenticated URL, clone into a fresh temporary directory, reset
\* the remote and return one message.  cloner holds one call of either.
CloneImpls == {"nodes.git", "nodes.git_nodes"}

\* settings.github_token: unset, or one of two different tokens
CloneTokens == Tokens \cup {"tok_b"}

\* a URL: its scheme, the userinfo in front of the host, and the rest
Url(scheme, auth, rest) == [scheme |-> scheme, auth |-> auth, rest |-> rest]

NoUrl == Url("", "", "")

CloneUrls ==
    {Url("https", "", "host/owner/repo"), Url("https", "", "host/owner/other"),
     Url("ssh", "", "host/owner/repo")}

CloneBranches == {"main", "dev"}

\* what tempfile.mkdtemp can return
CloneDirs == {"tmp_a", "tmp_b"}

\* create_github_https_url's result: netloc becomes f"{auth}@{parts.netloc}"
authenticated_url(https_url, token) == [https_url EXCEPT !.auth = token]

\* str(exc) of the GitCommandError names the command line, in which GitPython
\* replaces the userinfo of a URL by stars
redacted_cmdline_url(url) == [url EXCEPT !.auth = IF @ = "" THEN "" ELSE "*****"]

\* the URL the f-strings of the function's messages interpolate: nodes/git.py
\* binds the name repo_url to the authenticated URL, nodes/git_nodes.py keeps
\* repo_url as read from the state and names the authenticated one git_url
message_url(impl, url, token) ==
    IF impl = "nodes.git" THEN authenticated_url(url, token) ELSE url

\* the message clone_repo returns: "Cloned {repo_url}@{branch} to {dir}" or
\* "Failed to clone {repo_url}@{branch}: {exc}"
clone_message(impl, token, url, branch, dir, outcome) ==
    IF outcome = "ok"
    THEN [text |-> "Cloned", url |-> message_url(impl, url, token),
          branch |-> branch, dir |-> dir, exc |-> NoUrl]
    ELSE [text |-> "Failed to clone", url |-> message_url(impl, url, token),
          branch |-> branch, dir |-> "",
          exc |-> redacted_cmdline_url(authenticated_url(url, token))]

CloneInit ==
    /\ IdleWorker /\ WorkersIdle /\ RoundTripIdle /\ CliIdle /\ RegistryIdle /\ PublisherIdle
    /\ github_token \in CloneTokens
    /\ worker = "cli"
    /\ \E impl \in CloneImpls, url \in CloneUrls, branch \in CloneBranches :
            cloner = [impl |-> impl, repo_url |-> url, base_branch |-> branch,
                      pc |-> "call", git_url |-> NoUrl, dir |-> "", remote |-> NoUrl,
                      raised |-> "", messages |-> <<>>]

\* get_state_value of repo_url and base_branch, then create_github_https_url
CloneCall ==
    /\ cloner.pc = "call"
    /\ LET err == create_github_https_url(cloner.repo_url.scheme)
       IN  cloner' = IF err # ""
                     THEN [cloner EXCEPT !.pc = "raised", !.raised = err]
                     ELSE [cloner EXCEPT !.pc = "mkdtemp",
                              !.git_url = authenticated_url(cloner.repo_url, github_token)]

\* tempfile.mkdtemp(dir=get_temp_dir())
CloneMkdtemp ==
    /\ cloner.pc = "mkdtemp"
    /\ \E d \in CloneDirs : cloner' = [cloner EXCEPT !.pc = "clone_from", !.dir = d]

\* Repo.clone_from(authenticated URL, dir, ...)
CloneFrom ==
    /\ cloner.pc = "clone_from"
    /\ \E outcome \in {"ok", "GitCommandError"} :
          cloner' = IF outcome = "ok"
                    THEN [cloner EXCEPT !.pc = "set_url", !.remote = cloner.git_url]
                    ELSE [cloner EXCEPT !.pc = "except"]

\* repo.remote().set_url(the URL of the state), then the success message
CloneSetUrl ==
    /\ cloner.pc = "set_url"
    /\ cloner' = [cloner EXCEPT !.pc = "done", !.remote = cloner.repo_url,
                    !.messages = Append(@, clone_message(cloner.impl, github_token,
                                    cloner.repo_url, cloner.base_branch, cloner.dir, "ok"))]

\* except GitCommandError: the failure message
CloneExcept ==
    /\ cloner.pc = "except"
    /\ cloner' = [cloner EXCEPT !.pc = "done",
                    !.messages = Append(@, clone_message(cloner.impl, github_token,
                                    cloner.repo_url, cloner.base_branch, cloner.dir,
                                    "GitCommandError"))]

CloneNext ==
    /\ \/ CloneCall
       \/ CloneMkdtemp
       \/ CloneFrom
       \/ CloneSetUrl
       \/ CloneExcept
    /\ UNCHANGED <<queuevars, workers, tmp_dirs, roundtrip, cli, registry, publisher>>

CloneSpec == CloneInit /\ [][CloneNext]_vars

\* ------------------------------------------------------------------ claims
Nodes ==
    {"clone_repo", "create_branch", "inspect_files", "apply_recommendations",
     "tool_call", "commit_code", "push_code", "pr_repo", "comment_on_original_pr"}

\* positions of a node in the run's trace
Runs(node) == {i \in 1..Len(trace) : trace[i] = node}

MissingField(body) ==
    body.kind = "object" /\ required_message_fields \ body.fields # {}

\* C1: a delivered Task object that lacks a required field is rejected
\* without requeue (one nack, nothing put back on the queue) and the workflow
\* graph is neither built nor run for that delivery.
C1_MissingFieldRejected ==
    MissingField(cur) =>
        /\ pc = "returning"
        /\ decision = "nack"
        /\ ndecisions = 1
        /\ ~graph_built
        /\ trace = <<>>
        /\ \A i \in 1..Len(ready) : ready[i] # cur

C1_Witness ==
    /\ pc = "returning"
    /\ cur = Body("object", required_message_fields \ {"branch"}, "", 0)
    /\ decision = "nack"

PermanentlyInvalid(body) ==
    body.kind \in {"bad_utf8", "bad_json", "number", "null", "string", "list"}

\* C2: every permanently invalid body (not JSON, or JSON that is not a Task
\* object) is rejected without requeue, never requeued or acknowledged.
C2_InvalidBodyNotRequeued ==
    (PermanentlyInvalid(cur) /\ decision # "none") => decision = "nack"

\* a Git or hosting call failed inside clone, push or open-pull-request
TransientFailureSeen ==
    \E i \in 1..Len(state.messages) :
        MsgText(state.messages[i]) \in {"Failed to clone", "Failed to push", "Failed to open PR"}

\* C3: a run that hit a transient infrastructure failure (clone or push
\* network failure, rate-limited host API) ends in a reject with requeue.
C3_TransientRequeued ==
    (TransientFailureSeen /\ decision # "none") => decision = "nack_requeue"

\* C4: an acknowledgement is sent only after the graph run reached its terminal
\* point without an exception; while the run is in progress, and for a run
\* that raised, no acknowledgement exists.
C4_AckOnlyAfterRun ==
    /\ decision = "ack" =>
            /\ raised = ""
            /\ graph_built
            /\ trace # <<>>
            /\ Last(trace) = "comment_on_original_pr"
    /\ pc \in Nodes \cup {"finished"} => decision = "none" /\ ndecisions = 0
    /\ raised # "" => decision \in {"nack", "nack_requeue"}

C4_Witness ==
    /\ decision = "ack"
    /\ Len(commits) >= 1
    /\ pushed

\* C5: with prefetch 1 the worker holds at most one unacknowledged message,
\* and while it processes a message that message is the only one it holds:
\* the next one is delivered only after the decision on the previous one.
C5_OneTaskAtATime ==
    /\ Len(unacked) <= 1
    /\ pc \in Nodes \cup {"finished"} => unacked = <<cur>>

C5_Witness ==
    /\ pc \in Nodes
    /\ Len(unacked) = 1
    /\ ready # <<>>

ApplyReached ==
    pc = "apply_recommendations" \/ Runs("apply_recommendations") # {}

\* inspect-file executions before apply-recommendation first ran
InspectsBeforeApply ==
    LET first == IF Runs("apply_recommendations") = {} THEN Len(trace) + 1
                 ELSE CHOOSE i \in Runs("apply_recommendations") :
                        \A j \in Runs("apply_recommendations") : i <= j
    IN  Cardinality({i \in Runs("inspect_files") : i < first})

\* C6: for a Task with n > 0 modified files, inspect-file has executed exactly
\* n times when apply-recommendation first runs, and modified_files is empty
\* from then on.
C6_InspectLoopTerminates ==
    (cur.nfiles > 0 /\ ApplyReached) =>
        /\ InspectsBeforeApply = cur.nfiles
        /\ state.modified_files = <<>>

C6_Witness ==
    /\ pc = "apply_recommendations"
    /\ cur.nfiles = MaxFiles
    /\ InspectsBeforeApply = MaxFiles
    /\ \E i \in 1..Len(state.messages) : MsgText(state.messages[i]) = "Could not read file"
    /\ state.recommendations # <<>>

\* C7: when the run proceeds to push, the apply loop has performed exactly N
\* commit cycles, N being the number of recommendations pending when the
\* apply phase started.
C7_OneCommitCyclePerRecommendation ==
    (pc = "push_code" /\ recs_at_apply >= 0) =>
        Cardinality(Runs("commit_code")) = recs_at_apply

\* C8: every commit's message is the summary of the recommendation popped by
\* the apply step that immediately preceded it (the generic message when that
\* record has no summary), never that of an earlier or later recommendation.
C8_CommitUsesCurrentSummary ==
    \A i \in 1..Len(commits) :
        /\ commits[i].after \in i..Len(popped)
        /\ LET rec == popped[commits[i].after]
           IN  IF rec.kind = "no_summary"
               THEN commits[i].message = DefaultCommitMessage
               ELSE commits[i].message = rec.summary

C8_Witness ==
    /\ Len(commits) = 2
    /\ commits[1].message # commits[2].message
    /\ commits[2].message # DefaultCommitMessage

\* model round-trips of the tool-bound step whose reply requested no tool
NoToolReplies ==
    {k \in 1..Len(llm_calls) :
        llm_calls[k].node = "apply_recommendations" /\ ~llm_calls[k].tool_requested}

\* C9: after a reply of the tool-bound step without a tool-call request the
\* sub-loop ends at once: the next step is push, no tool execution and no
\* further model invocation follows.
C9_NoToolCallEndsSubLoop ==
    \A k \in NoToolReplies :
        LET at == llm_calls[k].at
        IN  /\ k = Len(llm_calls)
            /\ pc \notin {"tool_call", "commit_code", "apply_recommendations", "inspect_files"}
            /\ Len(trace) > at => trace[at + 1] = "push_code"
            /\ \A j \in (at + 1)..Len(trace) :
                    trace[j] \in {"push_code", "pr_repo", "comment_on_original_pr"}
            /\ Cardinality(Runs("tool_call")) =
                    Cardinality({j \in 1..Len(llm_calls) : llm_calls[j].tool_requested})

C9_Witness ==
    /\ NoToolReplies # {}
    /\ tool_runs = 1
    /\ decision = "ack"

\* the sub-loop of the tool run at trace position j has ended: push was reached
PushReachedAfter(j) ==
    pc = "push_code" \/ \E m \in Runs("push_code") : m > j

\* C10: after a tool execution the model is invoked again, with a
\* conversation that includes the tool result, before the sub-loop ends.
C10_ModelSeesToolResult ==
    \A j \in Runs("tool_call") :
        PushReachedAfter(j) =>
            \E k \in 1..Len(llm_calls) :
                /\ llm_calls[k].at > j
                /\ \E x \in 1..Len(llm_calls[k].input) : MsgRole(llm_calls[k].input[x]) = "tool"

IsPrefix(s, t) == Len(s) <= Len(t) /\ \A i \in 1..Len(s) : s[i] = t[i]

\* C11: across every step of a run the additive fields are never truncated:
\* after the step's update is merged the previous conversation is a prefix of
\* the new one and updated_files is at least as long as before.
C11_AdditiveFieldsNeverShrink ==
    [][(pc \in Nodes) =>
          (IsPrefix(state.messages, state'.messages)
           /\ Len(state'.updated_files) >= Len(state.updated_files))]_vars

C11_Witness ==
    /\ pc = "commit_code"
    /\ Len(state.updated_files) = 1
    /\ Cardinality(Runs("inspect_files")) = MaxFiles
    /\ Len(state.messages) > Len(trace) + 4

Count(seq, x) == Cardinality({i \in 1..Len(seq) : seq[i] = x})

\* entries for file f contributed by the tasks 1..n of the fan-out
RECURSIVE Contributed(_, _)
Contributed(f, n) ==
    IF n = 0 THEN 0
    ELSE Contributed(f, n - 1) + Count(branches[n].result.updated_files, f)

\* C12: when the concurrent apply branches have all completed, in whatever
\* order, the merged updated_files holds every entry every branch contributed:
\* no branch's entries are overwritten by another branch's update.
C12_BranchEntriesAllMerged ==
    pc = "commit_all_changes" =>
        \A f \in 1..(MaxFiles + 1) :
            Count(state.updated_files, f) = Contributed(f, Len(branches))

C12_Witness ==
    /\ pc = "commit_all_changes"
    /\ Len(branches) >= 2
    /\ branches[2].rank < branches[1].rank
    /\ branches[1].result.updated_files # <<>>
    /\ branches[2].result.updated_files # <<>>

\* C13: a step-local recoverable error of inspect-file (unreadable file, a
\* reply that is not JSON, or JSON that is not a list of records) adds no
\* recommendation and lets the graph continue: no exception of the inspect
\* step reaches the dispatcher and nothing but records is ever pending.
C13_InspectErrorsNeverAbort ==
    /\ (trace # <<>> /\ Last(trace) = "inspect_files") => raised = ""
    /\ \A i \in 1..Len(state.recommendations) :
            state.recommendations[i].kind \in RecKinds

\* the clone step caught a GitCommandError and returned its failure message
\* (clone is the first step, so its message opens the conversation)
CloneFailed ==
    state.messages # <<>> /\ MsgText(state.messages[1]) = "Failed to clone"

\* C14: when clone fails its update holds only the failure message and the
\* working-copy path stays unset; the run is then stopped: clone runs once,
\* the step after it raises before doing anything, and no branch, model call,
\* commit, push, pull request or comment is ever made in that run.
C14_CloneFailureStopsRun ==
    CloneFailed =>
        /\ state.clone_path = None
        /\ Len(state.messages) = 1
        /\ Cardinality(Runs("clone_repo")) = 1
        /\ trace \in {<<"clone_repo">>, <<"clone_repo", "create_branch">>}
        /\ Len(trace) = 2 => (raised = "ValueError" /\ pc = "returning")
        /\ pc \in {"create_branch", "returning"}
        /\ state.new_branch = None /\ state.pr_url = None
        /\ state.recommendations = <<>> /\ state.updated_files = <<>>
        /\ llm_calls = <<>> /\ popped = <<>> /\ commits = <<>>
        /\ tool_runs = 0 /\ ~pushed /\ comment = None

C14_Witness ==
    /\ CloneFailed
    /\ trace = <<"clone_repo", "create_branch">>
    /\ raised = "ValueError"
    /\ decision = "nack"
    /\ cur.nfiles > 0

\* C15: between steps the origin URL stored in the working copy's config
\* never holds the credential: every step that injected it (clone, commit,
\* push) has removed it again when it returns, so it is absent at the end of
\* the run as well.
C15_RemoteUrlCredentialFree ==
    remote_url # "git_url"

\* the worker starts the graph run for a delivery
RunStarts == pc = "idle" /\ pc' \in Nodes

\* C16: the state persisted after each step lets an interrupted run resume:
\* when a task is redelivered after a run that had completed at least one
\* step, the new run continues after that step and does not start again from
\* clone with the initial state.
C16_RedeliveryResumesFromCheckpoint ==
    [][(RunStarts /\ checkpointed) =>
          (pc' # "clone_repo" /\ state' # create_initial_state(cur'))]_vars

\* C17: the conversation lists the turns in chronological append order and
\* each turn exactly once: no turn precedes a turn of an earlier step and no
\* turn is repeated, also after inspect-file and apply-recommendation, which
\* return the whole state.
C17_TurnsOnceInOrder ==
    \A i, j \in 1..Len(state.messages) :
        i < j => /\ MsgStep(state.messages[i]) <= MsgStep(state.messages[j])
                 /\ state.messages[i] # state.messages[j]

\* consecutive steps the canonical path allows
CanonicalEdges ==
    {<<"clone_repo", "create_branch">>, <<"create_branch", "inspect_files">>,
     <<"inspect_files", "inspect_files">>, <<"inspect_files", "apply_recommendations">>,
     <<"apply_recommendations", "tool_call">>, <<"tool_call", "commit_code">>,
     <<"commit_code", "apply_recommendations">>,
     <<"apply_recommendations", "apply_recommendations">>,
     <<"apply_recommendations", "push_code">>, <<"push_code", "pr_repo">>,
     <<"pr_repo", "comment_on_original_pr">>}

EmptyStepDue ==
    \/ pc = "inspect_files" /\ state.modified_files = <<>>
    \/ pc = "apply_recommendations" /\ state.recommendations = <<>>

\* C19: inspect-file with an empty pending-file list and apply-recommendation
\* with an empty recommendation list are no-ops: once the step's update is
\* merged every state field, the conversation and updated_files included,
\* has the value it had before the step.
C19_EmptyStepsAreNoOps ==
    [][EmptyStepDue => state' = state]_vars

\* C20: a run that completes after inspection produced at least one
\* recommendation ends with a pull-request URL in its state and with a
\* comment that references that URL posted on the originating pull request.
C20_CompletedRunHasPrAndComment ==
    (pc = "finished" /\ recs_at_apply >= 1) =>
        /\ state.pr_url # None
        /\ comment = state.pr_url

\* C21: every run clones into a fresh directory of its own, so two workers
\* never hold the same working copy, and every step of a run reads and writes
\* only inside the working copy that run created.
C21_WorkingCopyIsolation ==
    /\ \A w, v \in 1..NumWorkers :
            w # v => workers[w].created \cap workers[v].created = {}
    /\ \A w \in 1..NumWorkers : workers[w].accessed \subseteq workers[w].created

\* C22: with an empty GITHUB_TOKEN, a process started through
\* start_queue_worker exits before it takes any delivery; a consumer that runs
\* anyway halts every run at the first use of the token (clone_repo, before a
\* working copy exists) with a ValueError, and the message of such a run is
\* rejected without requeue.
C22_EmptyTokenHalts ==
    github_token = "" =>
        /\ worker = "exit_1" => (unacked = <<>> /\ pc = "idle" /\ ndecisions = 0)
        /\ Len(trace) <= 1
        /\ remote_url = None /\ commits = <<>> /\ ~pushed
        /\ trace # <<>> => (raised = "ValueError" /\ decision = "nack")

C22_Witness ==
    /\ github_token = ""
    /\ trace = <<"clone_repo">>
    /\ decision = "nack"
    /\ pc = "returning"

\* C23: the modified_files a consumer puts into the initial state is the list
\* the publisher serialized, record for record, in the same order and with
\* the same line numbers, whether the message carried the list or the list
\* as a JSON string.
C23_ModifiedFilesRoundTrip ==
    roundtrip.stage = "state" =>
        roundtrip.parsed = [ty |-> "list", items |-> roundtrip.files]

AllArgsCliRun ==
    /\ cli # <<>>
    /\ cli.stage = "exited"
    /\ ~cli.queue_mode
    /\ missing_args(cli.args) = {}

\* C24: in CLI mode with all four arguments and a non-empty GITHUB_TOKEN, main
\* calls run_review_graph exactly once, with repo_url, original_pr_url,
\* base_branch = the --branch value and modified_files as given, prints the
\* result and exits with code 0.
C24_CliRunsReviewOnce ==
    (AllArgsCliRun /\ github_token # "") =>
        /\ cli.calls = <<[repo_url |-> cli.args["repo_url"],
                          original_pr_url |-> cli.args["original_pr_url"],
                          base_branch |-> cli.args["branch"],
                          modified_files |-> cli.args["modified_files"]]>>
        /\ cli.printed # <<>>
        /\ cli.exit_code = 0

\* C25: in CLI mode with all four arguments and an unset or empty
\* GITHUB_TOKEN, main exits with code 1.
C25_CliExitsWithoutToken ==
    (AllArgsCliRun /\ github_token = "") => cli.exit_code = 1

\* C26: updated_files holds only paths for which a tool was executed: every
\* entry is matched by a tool execution of the same cycle, which has happened
\* or, right after the apply step, is the next step of the run.
C26_UpdatedFilesOnlyAfterTool ==
    Len(state.updated_files) <= tool_runs + (IF pc = "tool_call" THEN 1 ELSE 0)

\* the recommendations of the run so far: the applied ones, then the pending
RecordsOfRun == popped \o state.recommendations

\* C27: the recommendations list is a FIFO queue: inspection adds the parsed
\* records at the tail, file by file, and application takes the head, so the
\* applied records followed by the pending ones are always in production
\* order (by file, then by position in the reply), and no record occurs twice.
C27_FifoOrder ==
    \A i, j \in 1..Len(RecordsOfRun) :
        (i < j /\ RecordsOfRun[i].kind # "not_a_record"
               /\ RecordsOfRun[j].kind # "not_a_record")
            => RecordsOfRun[i].summary < RecordsOfRun[j].summary

C27_Witness ==
    /\ Len(popped) = 2
    /\ popped[1].file # popped[2].file
    /\ state.recommendations = <<>>

\* the message of the current delivery is back with the broker: at the head of
\* the queue, or already handed to the worker again
Requeued ==
    \/ ready # <<>> /\ Head(ready) = cur
    \/ unacked # <<>> /\ Head(unacked) = cur

\* C28: the decision depends on the exception alone: whenever a delivery ends
\* with an exception that is not a ValueError, however often the message was
\* delivered before, the message is rejected with requeue and goes back to
\* the head of the queue, from where it is delivered again.
C28_RequeuedOnEveryDelivery ==
    (pc = "returning" /\ raised # "" /\ ~IsValueError(raised)) =>
        (decision = "nack_requeue" /\ Requeued)

C28_Witness ==
    /\ pc = "returning"
    /\ raised = "ConnectionError"
    /\ cur.kind = "object"
    /\ decision = "nack_requeue"
    /\ unacked = <<cur>>

CommitsInTrace == Count(trace, "commit_all_changes")

AllBranchesCompleted ==
    branches # <<>> /\ \A i \in 1..Len(branches) : branches[i].rank > 0

\* a commit or a push in the trace stands right after the step the edges name
FollowsInTrace(node, before) ==
    \A i \in 1..Len(trace) : trace[i] = node => (i > 1 /\ trace[i - 1] = before)

C30_RegisterKeepsFirstClass ==
    /\ registry.workflows = registry.first
    /\ registry.call = "register" =>
            /\ (registry.raised = "ValueError") = (registry.before[registry.arg] # NoClass)
            /\ registry.raised = "ValueError" => registry.workflows = registry.before
            /\ registry.raised = "" =>
                    \A n \in WorkflowNames \ {registry.arg} :
                        registry.workflows[n] = registry.before[n]

C30_Witness ==
    /\ registry.call = "register"
    /\ registry.raised = "ValueError"
    /\ registry.workflows[registry.arg].id = "first_module"
    /\ \E n \in WorkflowNames : registry.workflows[n] = NoClass

\* the publish_to_queue calls of the webhook: the finished ones and, while a
\* call is under way, the current one
PublishCalls ==
    publisher.calls \o
        (IF publisher.pc = "processed" THEN <<>>
         ELSE <<[outcome |-> "running", attempts |-> publisher.attempts,
                 published |-> publisher.published, failed |-> publisher.failed]>>)

\* C31: outside dev mode one call of publish_to_queue makes at most
\* rabbitmq_retry_attempts publish attempts, returns right after the first
\* successful publish (the message is published at most once per call) and
\* raises HTTP 500 only after every attempt has failed (nothing was published);
\* in dev mode it publishes nothing.
C31_PublishAtMostOnce ==
    \A i \in 1..Len(PublishCalls) :
        LET c == PublishCalls[i]
        IN  /\ c.attempts <= rabbitmq_retry_attempts
            /\ c.published <= 1
            /\ (c.published = 1 /\ i = Len(PublishCalls) /\ publisher.pc # "processed")
                    => publisher.pc = "close"
            /\ c.outcome = "http_500" =>
                    (c.failed = rabbitmq_retry_attempts /\ c.published = 0)
            /\ publisher.dev_mode => (c.published = 0 /\ c.attempts = 0)

Decisions == {"ack", "nack", "nack_requeue"}

\* C32: for each delivered message process_message issues exactly one broker
\* decision (ack, nack without requeue, or nack with requeue): none while the
\* delivery is being processed, exactly one call when it returns, never two,
\* and the decision settles the delivery (ack after a run that raised
\* nothing, the nack that fits the exception otherwise).
C32_ExactlyOneDecision ==
    /\ ndecisions <= 1
    /\ pc = "returning" =>
            /\ ndecisions = 1
            /\ decision \in Decisions
            /\ decision = "ack" <=> raised = ""
    /\ pc # "returning" => (ndecisions = 0 /\ decision = "none")

C32_Witness ==
    /\ pc = "returning"
    /\ ndecisions = 1
    /\ decision = "nack"
    /\ raised = "ValueError"
    /\ trace # <<>>

\* C33: the dispatcher's failure classification depends only on the type of
\* the exception that escaped parsing, validation or the graph run: a
\* ValueError (subclasses included, wherever it was raised: a step that found
\* clone_path or new_branch unset, a non-HTTPS repository URL, the tool router)
\* gives nack without requeue, every other Exception gives nack with requeue.
C33_ClassifiedByTypeOnly ==
    (pc = "returning" /\ raised # "") =>
        /\ IsValueError(raised) => decision = "nack"
        /\ ~IsValueError(raised) => decision = "nack_requeue"

C33_Witness ==
    /\ pc = "returning"
    /\ raised = "ValueError"
    /\ trace = <<"clone_repo">>
    /\ cur.url = "ssh"
    /\ github_token = "tok"
    /\ decision = "nack"

ApplyRuns == Runs("apply_recommendations")

\* the apply execution at trace position i invoked the model and the reply
\* requested a tool call
ToolRequestedAt(i) ==
    \E k \in 1..Len(llm_calls) :
        /\ llm_calls[k].at = i
        /\ llm_calls[k].node = "apply_recommendations"
        /\ llm_calls[k].tool_requested

\* apply executions up to the first one without a tool-call request
LeadingToolCalls ==
    Cardinality({i \in ApplyRuns : \A j \in ApplyRuns : j <= i => ToolRequestedAt(j)})

CommitCycles == Count(trace, "commit_code")

PushReached == pc = "push_code" \/ Runs("push_code") # {}

\* C34: the commit cycles of a run are as many as the leading recommendations
\* for which apply-recommendation invoked the model and got a tool-call
\* request; the first apply execution without one (plain reply, empty
\* instructions, missing file) is the last apply execution: the run goes to
\* push and the recommendations still pending are never taken.
C34_CommitCyclesAreLeadingToolCalls ==
    /\ PushReached => CommitCycles = LeadingToolCalls
    /\ CommitCycles <= LeadingToolCalls
    /\ \A i \in ApplyRuns :
          (~ToolRequestedAt(i) /\ (raised = "" \/ i < Len(trace))) =>
              /\ \A j \in ApplyRuns : j <= i
              /\ Len(trace) > i => trace[i + 1] = "push_code"
              /\ Len(trace) = i => pc = "push_code"
              /\ Len(popped) + Len(state.recommendations) = recs_at_apply

C34_Witness ==
    /\ pc = "finished"
    /\ CommitCycles = 1
    /\ Len(popped) = 2
    /\ popped[2].kind = "no_instructions"
    /\ LeadingToolCalls = 1

ApplyPhase == {"apply_recommendations", "tool_call", "commit_code"}

AfterInspection == ApplyPhase \cup {"push_code", "pr_repo", "comment_on_original_pr"}

\* C35: every run terminates whatever the model replies: an apply execution
\* with a non-empty list removes exactly one recommendation, no step after the
\* inspection phase adds one, so the apply / tool / commit cycle runs at most
\* as many times as there were recommendations when the apply phase started,
\* and the run reaches its terminal point or raises.
C35_RunTerminates ==
    /\ [][(trace' = Append(trace, "apply_recommendations") /\ state.recommendations # <<>>)
            => state'.recommendations = Tail(state.recommendations)]_vars
    /\ [][(pc \in AfterInspection /\ pc' \in AfterInspection \cup {"finished", "returning"})
            => Len(state'.recommendations) <= Len(state.recommendations)]_vars
    /\ [](recs_at_apply >= 0 =>
            /\ CommitCycles <= recs_at_apply
            /\ Cardinality(ApplyRuns) <= recs_at_apply + 1)
    /\ (pc \in Nodes) ~> (pc \in {"finished", "returning"})

C35_Witness ==
    /\ pc = "finished"
    /\ recs_at_apply = 2
    /\ CommitCycles = 2
    /\ state.recommendations = <<>>

TailOfRun == <<"push_code", "pr_repo", "comment_on_original_pr">>

\* the single apply execution of a run whose inspection gave no recommendation
SkipAt == CHOOSE k \in ApplyRuns : TRUE

\* apply ran once as a skip; no tool execution, no commit step
AppliedAsSkip ==
    /\ Cardinality(ApplyRuns) = 1
    /\ Runs("tool_call") = {} /\ Runs("commit_code") = {}
    /\ tool_runs = 0 /\ commits = <<>> /\ popped = <<>>

\* after the skip the run executes push, open-pull-request and comment in order
PublishesInOrder ==
    LET n == Len(trace) - SkipAt
    IN  /\ raised = ""
        /\ n <= 3
        /\ \A k \in 1..n : trace[SkipAt + k] = TailOfRun[k]
        /\ pc = IF n < 3 THEN TailOfRun[n + 1]
                ELSE IF decision = "none" THEN "finished" ELSE "returning"
        /\ decision \in {"none", "ack"}

\* after the skip the push step raises on the unset new_branch
PushRaises ==
    LET n == Len(trace) - SkipAt
    IN  /\ n <= 1
        /\ ~pushed
        /\ n = 0 => (pc = "push_code" /\ raised = "")
        /\ n = 1 => /\ trace[SkipAt + 1] = "push_code"
                     /\ raised = "ValueError"
                     /\ pc = "returning"
                     /\ decision = "nack"

\* after the skip the push step's origin.set_url fails outside the try block
PushSetUrlEscapes ==
    /\ Len(trace) = SkipAt + 1
    /\ trace[SkipAt + 1] = "push_code"
    /\ ~pushed
    /\ raised = "GitCommandError"
    /\ pc = "returning"
    /\ decision = "nack_requeue"

PublishingSteps == {"commit_code", "push_code", "pr_repo", "comment_on_original_pr"}

\* exception types of a Git or hosting failure
GitHostingFailures == {"GitCommandError", "GithubException"}

\* texts of the messages the four steps record for a failure they caught
CaughtFailureTexts ==
    {"Failed to add/commit", "Failed to push", "Failed to open PR", "Failed to comment"}

\* some step after the last commit cycle recorded a failure it caught
CaughtAfterCommits ==
    \E i \in 1..Len(state.messages) :
        MsgText(state.messages[i]) \in CaughtFailureTexts \ {"Failed to add/commit"}

\* C37: a Git or hosting failure raised inside commit, push, open-pull-request
\* or comment-on-origin never leaves the step as an exception, and a run in
\* which push, open-pull-request or comment recorded such a failure as a
\* message ends acknowledged.
C37_GitHostingFailuresAreSwallowed ==
    /\ (trace # <<>> /\ Last(trace) \in PublishingSteps)
            => raised \notin GitHostingFailures
    /\ (pc = "returning" /\ CaughtAfterCommits) => decision = "ack"

\* get_state_value's notion of an unset value: None or a blank string
Unset(v) == v = None \/ v = ""

\* no commit was created, nothing was pushed, no pull request was opened and
\* the origin URL of the clone was not rewritten
NoRepositoryOrHostingEffect ==
    /\ commits = <<>>
    /\ ~pushed
    /\ state.pr_url = None
    /\ remote_url # "git_url"

\* the last node that ran is n, and it raised ValueError without any effect
RaisedBeforeEffect ==
    /\ raised = "ValueError"
    /\ pc = "returning"
    /\ decision = "nack"
    /\ NoRepositoryOrHostingEffect

\* the run's clone or its create-branch step recorded a failure
CloneOrBranchFailed ==
    \E i \in 1..Len(state.messages) :
        MsgText(state.messages[i]) \in {"Failed to clone", "Failed to create"}

\* in a run whose clone or create-branch failed there is no commit, no push and
\* no pull request
FailedRunHasNoEffect ==
    (trace # <<>> /\ CloneOrBranchFailed) => NoRepositoryOrHostingEffect

TokenFree(m) ==
    /\ m.url.auth = ""
    /\ m.exc.auth # github_token

\* the message the same call returns under another token
SameUnderEveryToken(m) ==
    \A t \in CloneTokens \ {""} :
        clone_message(cloner.impl, t, cloner.repo_url, cloner.base_branch, cloner.dir,
                      IF m.text = "Cloned" THEN "ok" ELSE "GitCommandError") = m

\* C39: no message of the clone step, on success or on failure, contains the
\* token-injected URL; it mentions the token-free URL of the state, and the
\* same call under another token returns the same message.
C39_CloneMessagesAreTokenFree ==
    \A i \in 1..Len(cloner.messages) :
        /\ TokenFree(cloner.messages[i])
        /\ cloner.messages[i].url = cloner.repo_url
        /\ SameUnderEveryToken(cloner.messages[i])
====
